---- MODULE Spec2Model ----
(***************************************************************************)
(* A model of packages/compiler-cli/src/ngtsc/translator/src/translator.ts *)
(* (Context, ImportManager, ExpressionTranslatorVisitor,                   *)
(* TypeTranslatorVisitor and the localized-string helper).                 *)
(*                                                                         *)
(* IR nodes and output (TypeScript AST) nodes are records tagged by a      *)
(* `kind` field.  JavaScript null is the value NULL.  JavaScript arrays    *)
(* are sequences (index i of the source is index i+1 here).                *)
(***************************************************************************)
EXTENDS Integers, Sequences, FiniteSets, TLC

VARIABLES
  rewriter,               \* ImportManager.rewriter (constructor argument)
  prefix,                 \* ImportManager.prefix (constructor argument)
  specifierToIdentifier,  \* ImportManager.specifierToIdentifier, in insertion order
  nextIndex,              \* ImportManager.nextIndex
  ret,                    \* what the last operation was called with and returned
  returned,               \* history: every (moduleName, moduleImport) generateNamedImport returned
  firstOrder,             \* history: modules in the order of their first import-producing call
  rereferenced,           \* history: modules imported again after their first import
  listed                  \* history: the lists the last two getAllImports calls returned,
                          \* oldest first

vars == <<rewriter, prefix, specifierToIdentifier, nextIndex, ret, returned, firstOrder,
          rereferenced, listed>>

NULL == "<null>"

-----------------------------------------------------------------------------
(* Bounds of the model and the input alphabets.                            *)

NumModules == 2
MaxDepth == 2
MaxExpressions == 2
StackLimit == 12

ModuleNames == {"m" \o ToString(i) : i \in 1..NumModules}
SymbolNames == {"A", "B"}
ContextPaths == {"/app/a.ts", "/lib/b.ts"}
Prefixes == {"i", "i1"}

-----------------------------------------------------------------------------
(* The import-rewrite policy (the ImportRewriter collaborator).  "Noop" is *)
(* the default NoopImportRewriter: identity symbol, always import,         *)
(* identity specifier.  "Core" is a policy that treats one module (the     *)
(* core module) specially: it renames the symbols imported from it, elides *)
(* the import of the symbols in `elided`, and rewrites its specifier       *)
(* relative to the emitting file.                                          *)

CoreModule == "m1"

Rewriters ==
  {[kind |-> "Noop", elided |-> {}]} \cup
  {[kind |-> "Core", elided |-> e] : e \in SUBSET SymbolNames}

rewriteSymbol(rw, symbol, specifier) ==
  IF rw.kind = "Core" /\ specifier = CoreModule THEN "r_" \o symbol ELSE symbol

shouldImportSymbol(rw, symbol, specifier) ==
  ~(rw.kind = "Core" /\ specifier = CoreModule
      /\ \E s \in rw.elided : symbol = rewriteSymbol(rw, s, specifier))

rewriteSpecifier(rw, specifier, contextPath) ==
  IF rw.kind = "Core" /\ specifier = CoreModule
  THEN contextPath \o "/../core" ELSE specifier

-----------------------------------------------------------------------------
(* ImportManager.  The Map specifierToIdentifier is a sequence of entries  *)
(* [specifier, identifier] in insertion order (the order Map.forEach       *)
(* iterates in); `im` is the record [specifierToIdentifier, nextIndex].    *)

MapHas(map, key) == \E i \in 1..Len(map) : map[i].specifier = key

MapGet(map, key) ==
  map[CHOOSE i \in 1..Len(map) : map[i].specifier = key].identifier

\* Map.set: an existing key keeps its position and gets the new value.
MapSet(map, key, value) ==
  IF MapHas(map, key)
  THEN [i \in 1..Len(map) |->
          IF map[i].specifier = key
          THEN [specifier |-> key, identifier |-> value] ELSE map[i]]
  ELSE Append(map, [specifier |-> key, identifier |-> value])

\* `${this.prefix}${this.nextIndex++}`
Alias(pfx, index) == pfx \o ToString(index)

\* A plausible slip: the has() test is dropped, every call allocates.
generateNamedImport_AlwaysAllocate(rw, pfx, im, moduleName, originalSymbol) ==
  LET symbol == rewriteSymbol(rw, originalSymbol, moduleName) IN
  IF ~shouldImportSymbol(rw, symbol, moduleName)
  THEN [moduleImport |-> NULL, symbol |-> symbol, im |-> im]
  ELSE [moduleImport |-> Alias(pfx, im.nextIndex), symbol |-> symbol,
        im |-> [specifierToIdentifier |->
                  MapSet(im.specifierToIdentifier, moduleName, Alias(pfx, im.nextIndex)),
                nextIndex |-> im.nextIndex + 1]]

\* A plausible slip: the alias is allocated before the policy is asked.
generateNamedImport_AllocateFirst(rw, pfx, im, moduleName, originalSymbol) ==
  LET symbol == rewriteSymbol(rw, originalSymbol, moduleName)
      im1 == IF MapHas(im.specifierToIdentifier, moduleName) THEN im
             ELSE [specifierToIdentifier |->
                     MapSet(im.specifierToIdentifier, moduleName, Alias(pfx, im.nextIndex)),
                   nextIndex |-> im.nextIndex + 1]
  IN IF ~shouldImportSymbol(rw, symbol, moduleName)
     THEN [moduleImport |-> NULL, symbol |-> symbol, im |-> im1]
     ELSE [moduleImport |-> MapGet(im1.specifierToIdentifier, moduleName),
           symbol |-> symbol, im |-> im1]

\* A plausible slip: the counter is read but not incremented.
generateNamedImport_NoIncrement(rw, pfx, im, moduleName, originalSymbol) ==
  LET symbol == rewriteSymbol(rw, originalSymbol, moduleName) IN
  IF ~shouldImportSymbol(rw, symbol, moduleName)
  THEN [moduleImport |-> NULL, symbol |-> symbol, im |-> im]
  ELSE LET im1 == IF ~MapHas(im.specifierToIdentifier, moduleName)
                  THEN [specifierToIdentifier |->
                          MapSet(im.specifierToIdentifier, moduleName,
                                 Alias(pfx, im.nextIndex)),
                        nextIndex |-> im.nextIndex]
                  ELSE im
       IN [moduleImport |-> MapGet(im1.specifierToIdentifier, moduleName),
           symbol |-> symbol, im |-> im1]

generateNamedImport(rw, pfx, im, moduleName, originalSymbol) ==
  LET symbol == rewriteSymbol(rw, originalSymbol, moduleName) IN
  IF ~shouldImportSymbol(rw, symbol, moduleName)
  THEN [moduleImport |-> NULL, symbol |-> symbol, im |-> im]
  ELSE LET im1 == IF ~MapHas(im.specifierToIdentifier, moduleName)
                  THEN [specifierToIdentifier |->
                          MapSet(im.specifierToIdentifier, moduleName,
                                 Alias(pfx, im.nextIndex)),
                        nextIndex |-> im.nextIndex + 1]
                  ELSE im
       IN [moduleImport |-> MapGet(im1.specifierToIdentifier, moduleName),
           symbol |-> symbol, im |-> im1]

\* A plausible slip: the imports are returned sorted by qualifier, newest first.
getAllImports_Reversed(rw, im, contextPath) ==
  LET map == im.specifierToIdentifier IN
  [i \in 1..Len(map) |->
     [specifier |-> rewriteSpecifier(rw, map[Len(map) + 1 - i].specifier, contextPath),
      qualifier |-> map[Len(map) + 1 - i].identifier]]

getAllImports(rw, im, contextPath) ==
  LET map == im.specifierToIdentifier IN
  [i \in 1..Len(map) |->
     [specifier |-> rewriteSpecifier(rw, map[i].specifier, contextPath),
      qualifier |-> map[i].identifier]]

TheImports == [specifierToIdentifier |-> specifierToIdentifier, nextIndex |-> nextIndex]

-----------------------------------------------------------------------------
(* Context.                                                                *)

Context(isStatement) == [isStatement |-> isStatement]

withExpressionMode(context) == IF context.isStatement THEN Context(FALSE) ELSE context

withStatementMode(context) == IF ~context.isStatement THEN Context(TRUE) ELSE context

-----------------------------------------------------------------------------
(* ts.ScriptTarget (ES3 = 0, ES5 = 1, ES2015 = 2, ES2016 = 3, ...).        *)

ES5 == 1
ES2015 == 2
ES2016 == 3

ScriptTargets == {ES5, ES2015, ES2016}

(* BINARY_OPERATORS: the IR operator names mapped to the TypeScript tokens. *)
BINARY_OPERATORS ==
  [op \in {"And", "Bigger", "BiggerEquals", "BitwiseAnd", "Divide", "Equals",
           "Identical", "Lower", "LowerEquals", "Minus", "Modulo", "Multiply",
           "NotEquals", "NotIdentical", "Or", "Plus"} |->
     CASE op = "And" -> "AmpersandAmpersandToken"
       [] op = "Bigger" -> "GreaterThanToken"
       [] op = "BiggerEquals" -> "GreaterThanEqualsToken"
       [] op = "BitwiseAnd" -> "AmpersandToken"
       [] op = "Divide" -> "SlashToken"
       [] op = "Equals" -> "EqualsEqualsToken"
       [] op = "Identical" -> "EqualsEqualsEqualsToken"
       [] op = "Lower" -> "LessThanToken"
       [] op = "LowerEquals" -> "LessThanEqualsToken"
       [] op = "Minus" -> "MinusToken"
       [] op = "Modulo" -> "PercentToken"
       [] op = "Multiply" -> "AsteriskToken"
       [] op = "NotEquals" -> "ExclamationEqualsToken"
       [] op = "NotIdentical" -> "ExclamationEqualsEqualsToken"
       [] op = "Or" -> "BarBarToken"
       [] op = "Plus" -> "PlusToken"]

-----------------------------------------------------------------------------
(* Results of a visit.  A visit returns [ok, out, st]: `out` is the output *)
(* node, or the Error thrown when ok is FALSE; `st` is the state the walk  *)
(* threads through: the ImportManager (im), the identifiers handed to the  *)
(* DefaultImportRecorder (used), the call depth (depth) and the record of  *)
(* the visits made so far (log: which visitor method visited which kind of *)
(* child, in which role, with which Context, and what came back).          *)
(* A visitor `v` is [visitor, scriptTarget, rewriter, prefix].             *)
(* Source-map ranges (setSourceMapRange) annotate the node and are not     *)
(* part of the node structure modelled here.                               *)

Ok(out, st) == [ok |-> TRUE, out |-> out, st |-> st]

Throw(message, st) == [ok |-> FALSE, out |-> [kind |-> "Error", message |-> message], st |-> st]

NodeArray(items) == [kind |-> "NodeArray", items |-> items]

NullNode == [kind |-> "<null>"]

createIdentifier(text) == [kind |-> "Identifier", text |-> text]

createBinary(left, operator, right) ==
  [kind |-> "BinaryExpression", left |-> left, operatorToken |-> operator, right |-> right]

createParen(expression) == [kind |-> "ParenthesizedExpression", expression |-> expression]

createPropertyAccess(expression, name) ==
  [kind |-> "PropertyAccessExpression", expression |-> expression, name |-> name]

createElementAccess(expression, index) ==
  [kind |-> "ElementAccessExpression", expression |-> expression,
   argumentExpression |-> index]

createBlock(statements) == [kind |-> "Block", statements |-> statements]

createParameters(params) ==
  [i \in 1..Len(params) |-> [kind |-> "Parameter", name |-> createIdentifier(params[i])]]

RECURSIVE Visit(_, _, _, _, _, _, _)

\* Array.prototype.map with a visiting callback: the nodes are visited in
\* order, and the first visit that throws ends the walk.  `sort` says which
\* of visitExpression, visitStatement and visitType is called on the nodes;
\* Visit is the dispatch defined after the visit methods.
mapVisit(sort, nodes, v, context, st, parent, role) ==
  LET upTo[i \in 0..Len(nodes)] ==
        IF i = 0 THEN Ok(NodeArray(<<>>), st)
        ELSE LET before == upTo[i - 1] IN
             IF ~before.ok THEN before
             ELSE LET h == Visit(sort, nodes[i], v, context, before.st, parent, role)
                  IN IF ~h.ok THEN h
                     ELSE Ok(NodeArray(Append(before.out.items, h.out)), h.st)
  IN upTo[Len(nodes)]

-----------------------------------------------------------------------------
(* The localized-string helper (visitLocalizedString, the function).       *)
(* serializeI18nHead() and serializeI18nTemplatePart(i) give the cooked    *)
(* and raw text of message part 0 and of message part i.                   *)

serializeI18nHead(ast) == [part |-> 0, text |-> ast.messageParts[1]]

serializeI18nTemplatePart(ast, i) == [part |-> i, text |-> ast.messageParts[i + 1]]

createTemplateLiteralPart(kind, part) ==
  [kind |-> kind, part |-> part.part, text |-> part.text]

\* The spans of the loop `for (let i = 1; i < ast.messageParts.length; i++)`:
\* span i pairs expressions[i - 1] with a TemplateMiddle of message part i.
\* upTo[n] is the span array after the iterations i = 1 .. n.
localizedSpans(ast, v, context, st) ==
  LET upTo[n \in 0..(Len(ast.messageParts) - 1)] ==
        IF n = 0 THEN Ok(NodeArray(<<>>), st)
        ELSE LET before == upTo[n - 1] IN
             IF ~before.ok THEN before
             ELSE LET resolvedExpression ==
                        Visit("Expression", ast.expressions[n], v, context, before.st,
                              "visitLocalizedString", "expression")
                      templatePart == serializeI18nTemplatePart(ast, n)
                      templateMiddle ==
                        createTemplateLiteralPart("TemplateMiddle", templatePart)
                  IN IF ~resolvedExpression.ok THEN resolvedExpression
                     ELSE Ok(NodeArray(Append(before.out.items,
                                              [kind |-> "TemplateSpan",
                                               expression |-> resolvedExpression.out,
                                               literal |-> templateMiddle])),
                             resolvedExpression.st)
  IN upTo[Len(ast.messageParts) - 1]

\* A plausible slip: the last span keeps its TemplateMiddle.
retagLastSpan_None(spans) == spans

\* spans[spans.length - 1].literal.kind = ts.SyntaxKind.TemplateTail
retagLastSpan(spans) ==
  IF Len(spans) > 0
  THEN [spans EXCEPT ![Len(spans)].literal.kind = "TemplateTail"]
  ELSE spans

localizedStringHelper(ast, context, v, st) ==
  LET metaBlock == serializeI18nHead(ast) IN
  IF Len(ast.messageParts) = 1
  THEN Ok([kind |-> "TaggedTemplateExpression", tag |-> createIdentifier("$localize"),
           template |-> createTemplateLiteralPart("NoSubstitutionTemplateLiteral",
                                                  metaBlock)], st)
  ELSE LET head == createTemplateLiteralPart("TemplateHead", metaBlock)
           spans == localizedSpans(ast, v, context, st)
       IN IF ~spans.ok THEN spans
          ELSE Ok([kind |-> "TaggedTemplateExpression",
                   tag |-> createIdentifier("$localize"),
                   template |-> [kind |-> "TemplateExpression", head |-> head,
                                 templateSpans |-> retagLastSpan(spans.out.items)]],
                  spans.st)

-----------------------------------------------------------------------------
(* ExpressionTranslatorVisitor: the statement visits.                      *)

Final == "Final"

\* A plausible slip: `>` for `>=`.
NodeFlagsOf_StrictlyAbove(scriptTarget, stmt) ==
  IF scriptTarget > ES2015 /\ Final \in stmt.modifiers THEN "Const" ELSE "None"

NodeFlagsOf(scriptTarget, stmt) ==
  IF scriptTarget >= ES2015 /\ Final \in stmt.modifiers THEN "Const" ELSE "None"

createVariableStatement(name, initializer, nodeFlags) ==
  [kind |-> "VariableStatement",
   declarationList |->
     [kind |-> "VariableDeclarationList", flags |-> nodeFlags,
      declarations |-> <<[kind |-> "VariableDeclaration",
                          name |-> createIdentifier(name),
                          initializer |-> initializer]>>]]

visitDeclareVarStmt(stmt, v, context, st) ==
  LET nodeFlags == NodeFlagsOf(v.scriptTarget, stmt) IN
  IF stmt.value = NullNode
  THEN Ok(createVariableStatement(stmt.name, NullNode, nodeFlags), st)
  ELSE LET value == Visit("Expression", stmt.value, v, withExpressionMode(context), st,
                                    "visitDeclareVarStmt", "value")
       IN IF ~value.ok THEN value
          ELSE Ok(createVariableStatement(stmt.name, value.out, nodeFlags), value.st)

visitDeclareFunctionStmt(stmt, v, context, st) ==
  LET body == mapVisit("Statement", stmt.statements, v, withStatementMode(context), st,
                                "visitDeclareFunctionStmt", "statements")
  IN IF ~body.ok THEN body
     ELSE Ok([kind |-> "FunctionDeclaration", name |-> createIdentifier(stmt.name),
              parameters |-> createParameters(stmt.params),
              body |-> createBlock(body.out.items)], body.st)

visitExpressionStmt(stmt, v, context, st) ==
  LET expr == Visit("Expression", stmt.expr, v, withStatementMode(context), st,
                              "visitExpressionStmt", "expr")
  IN IF ~expr.ok THEN expr
     ELSE Ok([kind |-> "ExpressionStatement", expression |-> expr.out], expr.st)

visitReturnStmt(stmt, v, context, st) ==
  LET value == Visit("Expression", stmt.value, v, withExpressionMode(context), st,
                               "visitReturnStmt", "value")
  IN IF ~value.ok THEN value
     ELSE Ok([kind |-> "ReturnStatement", expression |-> value.out], value.st)

\* A plausible slip: the class statement is dropped silently at a modern target.
visitDeclareClassStmt_Silent(stmt, v, context, st) ==
  IF v.scriptTarget < ES2015
  THEN Throw("Unsupported mode: Visiting a \"declare class\" statement", st)
  ELSE Ok([kind |-> "NotEmittedStatement"], st)

visitDeclareClassStmt(stmt, v, context, st) ==
  IF v.scriptTarget < ES2015
  THEN Throw("Unsupported mode: Visiting a \"declare class\" statement", st)
  ELSE Throw("Method not implemented.", st)

visitIfStmt(stmt, v, context, st) ==
  LET condition == Visit("Expression", stmt.condition, v, context, st,
                                   "visitIfStmt", "condition")
  IN IF ~condition.ok THEN condition ELSE
  LET trueCase == mapVisit("Statement", stmt.trueCase, v, withStatementMode(context),
                                    condition.st, "visitIfStmt", "trueCase")
  IN IF ~trueCase.ok THEN trueCase ELSE
  LET falseCase == IF Len(stmt.falseCase) > 0
                   THEN mapVisit("Statement", stmt.falseCase, v, withStatementMode(context),
                                          trueCase.st, "visitIfStmt", "falseCase")
                   ELSE Ok(NodeArray(<<>>), trueCase.st)
  IN IF ~falseCase.ok THEN falseCase
     ELSE Ok([kind |-> "IfStatement", expression |-> condition.out,
              thenStatement |-> createBlock(trueCase.out.items),
              elseStatement |-> IF Len(stmt.falseCase) > 0
                                THEN createBlock(falseCase.out.items)
                                ELSE NullNode],
             falseCase.st)

visitTryCatchStmt(stmt, v, context, st) == Throw("Method not implemented.", st)

visitThrowStmt(stmt, v, context, st) ==
  LET error == Visit("Expression", stmt.error, v, withExpressionMode(context), st,
                               "visitThrowStmt", "error")
  IN IF ~error.ok THEN error
     ELSE Ok([kind |-> "ThrowStatement", expression |-> error.out], error.st)

visitCommentStmt(stmt, v, context, st) == Throw("Method not implemented.", st)

visitJSDocCommentStmt(stmt, v, context, st) ==
  Ok([kind |-> "NotEmittedStatement",
      leadingComments |-> <<[kind |-> "MultiLineCommentTrivia", text |-> stmt.text]>>], st)

-----------------------------------------------------------------------------
(* ExpressionTranslatorVisitor: the expression visits.                     *)

visitReadVarExpr(ast, v, context, st) == Ok(createIdentifier(ast.name), st)

visitWriteVarExpr(expr, v, context, st) ==
  LET value == Visit("Expression", expr.value, v, context, st, "visitWriteVarExpr", "value")
  IN IF ~value.ok THEN value
     ELSE LET result == createBinary(createIdentifier(expr.name), "EqualsToken", value.out)
          IN Ok(IF context.isStatement THEN result ELSE createParen(result), value.st)

visitWriteKeyExpr(expr, v, context, st) ==
  LET exprContext == withExpressionMode(context)
      receiver == Visit("Expression", expr.receiver, v, exprContext, st,
                                  "visitWriteKeyExpr", "receiver")
  IN IF ~receiver.ok THEN receiver ELSE
  LET index == Visit("Expression", expr.index, v, exprContext, receiver.st,
                               "visitWriteKeyExpr", "index")
  IN IF ~index.ok THEN index ELSE
  LET rhs == Visit("Expression", expr.value, v, exprContext, index.st,
                             "visitWriteKeyExpr", "value")
  IN IF ~rhs.ok THEN rhs
     ELSE LET result == createBinary(createElementAccess(receiver.out, index.out),
                                     "EqualsToken", rhs.out)
          IN Ok(IF context.isStatement THEN result ELSE createParen(result), rhs.st)

visitWritePropExpr(expr, v, context, st) ==
  LET receiver == Visit("Expression", expr.receiver, v, context, st,
                                  "visitWritePropExpr", "receiver")
  IN IF ~receiver.ok THEN receiver ELSE
  LET value == Visit("Expression", expr.value, v, context, receiver.st,
                               "visitWritePropExpr", "value")
  IN IF ~value.ok THEN value
     ELSE Ok(createBinary(createPropertyAccess(receiver.out, createIdentifier(expr.name)),
                          "EqualsToken", value.out), value.st)

visitInvokeMethodExpr(ast, v, context, st) ==
  LET target == Visit("Expression", ast.receiver, v, context, st,
                                "visitInvokeMethodExpr", "receiver")
  IN IF ~target.ok THEN target ELSE
  LET args == mapVisit("Expression", ast.args, v, context, target.st,
                                 "visitInvokeMethodExpr", "args")
  IN IF ~args.ok THEN args
     ELSE Ok([kind |-> "CallExpression",
              expression |-> IF ast.name # NULL
                             THEN createPropertyAccess(target.out, createIdentifier(ast.name))
                             ELSE target.out,
              arguments |-> args.out.items, leadingComments |-> <<>>], args.st)

visitInvokeFunctionExpr(ast, v, context, st) ==
  LET fn == Visit("Expression", ast.fn, v, context, st, "visitInvokeFunctionExpr", "fn")
  IN IF ~fn.ok THEN fn ELSE
  LET args == mapVisit("Expression", ast.args, v, context, fn.st,
                                 "visitInvokeFunctionExpr", "args")
  IN IF ~args.ok THEN args
     ELSE Ok([kind |-> "CallExpression", expression |-> fn.out,
              arguments |-> args.out.items,
              leadingComments |->
                IF ast.pure
                THEN <<[kind |-> "MultiLineCommentTrivia", text |-> "@__PURE__"]>>
                ELSE <<>>], args.st)

visitInstantiateExpr(ast, v, context, st) ==
  LET classExpr == Visit("Expression", ast.classExpr, v, context, st,
                                   "visitInstantiateExpr", "classExpr")
  IN IF ~classExpr.ok THEN classExpr ELSE
  LET args == mapVisit("Expression", ast.args, v, context, classExpr.st,
                                 "visitInstantiateExpr", "args")
  IN IF ~args.ok THEN args
     ELSE Ok([kind |-> "NewExpression", expression |-> classExpr.out,
              arguments |-> args.out.items], args.st)

\* A LiteralExpr holds its JavaScript value in `literal`: UNDEFINED, NULL, or
\* the text of a number, string or boolean.
UNDEFINED == "<undefined>"

visitLiteralExpr(ast, v, context, st) ==
  Ok(IF ast.literal = UNDEFINED THEN createIdentifier("undefined")
     ELSE IF ast.literal = NULL THEN [kind |-> "NullKeyword"]
     ELSE [kind |-> "Literal", text |-> ast.literal], st)

visitLocalizedString(ast, v, context, st) ==
  IF v.scriptTarget < ES2015
  THEN Throw("Unsupported mode: Visiting a localized string", st)
  ELSE localizedStringHelper(ast, context, v, st)

\* A plausible slip: the import is requested before the module name is tested.
visitExternalExpr_ImportFirst(ast, v, context, st) ==
  IF ast.value.name = NULL THEN Throw("Import unknown module or symbol", st)
  ELSE LET r == generateNamedImport(v.rewriter, v.prefix, st.im, ast.value.moduleName, ast.value.name)
       IN IF ast.value.moduleName # NULL /\ r.moduleImport # NULL
          THEN Ok(createPropertyAccess(createIdentifier(r.moduleImport),
                                       createIdentifier(r.symbol)),
                  [st EXCEPT !.im = r.im])
          ELSE Ok(createIdentifier(IF ast.value.moduleName # NULL THEN r.symbol ELSE ast.value.name),
                  [st EXCEPT !.im = r.im])

visitExternalExpr(ast, v, context, st) ==
  IF ast.value.name = NULL THEN Throw("Import unknown module or symbol", st)
  ELSE IF ast.value.moduleName # NULL
  THEN LET r == generateNamedImport(v.rewriter, v.prefix, st.im, ast.value.moduleName, ast.value.name)
       IN IF r.moduleImport = NULL
          THEN Ok(createIdentifier(r.symbol), [st EXCEPT !.im = r.im])
          ELSE Ok(createPropertyAccess(createIdentifier(r.moduleImport),
                                       createIdentifier(r.symbol)),
                  [st EXCEPT !.im = r.im])
  ELSE Ok(createIdentifier(ast.value.name), st)

visitConditionalExpr(ast, v, context, st) ==
  LET condition == Visit("Expression", ast.condition, v, context, st,
                                   "visitConditionalExpr", "condition")
  IN IF ~condition.ok THEN condition ELSE
  LET trueCase == Visit("Expression", ast.trueCase, v, context, condition.st,
                                  "visitConditionalExpr", "trueCase")
  IN IF ~trueCase.ok THEN trueCase ELSE
  LET falseCase == Visit("Expression", ast.falseCase, v, context, trueCase.st,
                                   "visitConditionalExpr", "falseCase")
  IN IF ~falseCase.ok THEN falseCase
     ELSE Ok([kind |-> "ConditionalExpression", condition |-> condition.out,
              whenTrue |-> trueCase.out, whenFalse |-> falseCase.out], falseCase.st)

visitNotExpr(ast, v, context, st) ==
  LET condition == Visit("Expression", ast.condition, v, context, st,
                                   "visitNotExpr", "condition")
  IN IF ~condition.ok THEN condition
     ELSE Ok([kind |-> "PrefixUnaryExpression", operator |-> "ExclamationToken",
              operand |-> condition.out], condition.st)

visitAssertNotNullExpr(ast, v, context, st) ==
  Visit("Expression", ast.condition, v, context, st, "visitAssertNotNullExpr", "condition")

visitCastExpr(ast, v, context, st) ==
  Visit("Expression", ast.value, v, context, st, "visitCastExpr", "value")

visitFunctionExpr(ast, v, context, st) ==
  LET body == mapVisit("Statement", ast.statements, v, context, st,
                                "visitFunctionExpr", "statements")
  IN IF ~body.ok THEN body
     ELSE Ok([kind |-> "FunctionExpression",
              name |-> IF ast.name # NULL THEN createIdentifier(ast.name) ELSE NullNode,
              parameters |-> createParameters(ast.params),
              body |-> createBlock(body.out.items)], body.st)

visitBinaryOperatorExpr(ast, v, context, st) ==
  IF ast.operator \notin DOMAIN BINARY_OPERATORS
  THEN Throw("Unknown binary operator: " \o ast.operator, st)
  ELSE LET lhs == Visit("Expression", ast.lhs, v, context, st,
                                  "visitBinaryOperatorExpr", "lhs")
       IN IF ~lhs.ok THEN lhs ELSE
       LET rhs == Visit("Expression", ast.rhs, v, context, lhs.st,
                                  "visitBinaryOperatorExpr", "rhs")
       IN IF ~rhs.ok THEN rhs
          ELSE Ok(createBinary(lhs.out, BINARY_OPERATORS[ast.operator], rhs.out), rhs.st)

visitReadPropExpr(ast, v, context, st) ==
  LET receiver == Visit("Expression", ast.receiver, v, context, st,
                                  "visitReadPropExpr", "receiver")
  IN IF ~receiver.ok THEN receiver
     ELSE Ok(createPropertyAccess(receiver.out, createIdentifier(ast.name)), receiver.st)

visitReadKeyExpr(ast, v, context, st) ==
  LET receiver == Visit("Expression", ast.receiver, v, context, st,
                                  "visitReadKeyExpr", "receiver")
  IN IF ~receiver.ok THEN receiver ELSE
  LET index == Visit("Expression", ast.index, v, context, receiver.st,
                               "visitReadKeyExpr", "index")
  IN IF ~index.ok THEN index
     ELSE Ok(createElementAccess(receiver.out, index.out), index.st)

visitLiteralArrayExpr(ast, v, context, st) ==
  LET entries == mapVisit("Expression", ast.entries, v, context, st,
                                    "visitLiteralArrayExpr", "entries")
  IN IF ~entries.ok THEN entries
     ELSE Ok([kind |-> "ArrayLiteralExpression", elements |-> entries.out.items],
             entries.st)

\* The entries of a literal map, visited in order; each becomes a property
\* assignment whose name is a string literal (quoted) or an identifier.
createLiteralMapName(entry) ==
  IF entry.quoted THEN [kind |-> "Literal", text |-> entry.key]
  ELSE createIdentifier(entry.key)

literalMapEntries(entries, v, context, st) ==
  LET upTo[n \in 0..Len(entries)] ==
        IF n = 0 THEN Ok(NodeArray(<<>>), st)
        ELSE LET before == upTo[n - 1] IN
             IF ~before.ok THEN before
             ELSE LET value == Visit("Expression", entries[n].value, v, context,
                                     before.st, "visitLiteralMapExpr", "entries")
                  IN IF ~value.ok THEN value
                     ELSE Ok(NodeArray(Append(before.out.items,
                                              [kind |-> "PropertyAssignment",
                                               name |-> createLiteralMapName(entries[n]),
                                               initializer |-> value.out])), value.st)
  IN upTo[Len(entries)]

visitLiteralMapExpr(ast, v, context, st) ==
  LET entries == literalMapEntries(ast.entries, v, context, st)
  IN IF ~entries.ok THEN entries
     ELSE Ok([kind |-> "ObjectLiteralExpression", properties |-> entries.out.items],
             entries.st)

visitCommaExpr(ast, v, context, st) == Throw("Method not implemented.", st)

visitWrappedNodeExpr(ast, v, context, st) ==
  IF ast.node.kind = "Identifier" /\ v.recorder # "NOOP_DEFAULT_IMPORT_RECORDER"
  THEN Ok(ast.node, [st EXCEPT !.used = @ \cup {ast.node.text}])
  ELSE Ok(ast.node, st)

visitTypeofExpr(ast, v, context, st) ==
  LET expr == Visit("Expression", ast.expr, v, context, st, "visitTypeofExpr", "expr")
  IN IF ~expr.ok THEN expr
     ELSE Ok([kind |-> "TypeOfExpression", expression |-> expr.out], expr.st)

-----------------------------------------------------------------------------
(* TypeTranslatorVisitor.                                                  *)

ExpressionVisitor(scriptTarget, recorder, v) ==
  [visitor |-> "ExpressionTranslatorVisitor", scriptTarget |-> scriptTarget,
   recorder |-> recorder, rewriter |-> v.rewriter, prefix |-> v.prefix]

TypeVisitor(v) ==
  [visitor |-> "TypeTranslatorVisitor", scriptTarget |-> ES2015,
   recorder |-> "NOOP_DEFAULT_IMPORT_RECORDER", rewriter |-> v.rewriter,
   prefix |-> v.prefix]

translateExpression(expression, scriptTarget, recorder, v, st) ==
  Visit("Expression", expression, ExpressionVisitor(scriptTarget, recorder, v),
                  Context(FALSE), st, "translateExpression", "root")

translateStatement(statement, scriptTarget, recorder, v, st) ==
  Visit("Statement", statement, ExpressionVisitor(scriptTarget, recorder, v),
                 Context(TRUE), st, "translateStatement", "root")

translateType(type, v, st) ==
  Visit("Type", type, TypeVisitor(v), Context(FALSE), st, "translateType", "root")

visitBuiltinType(type, v, context, st) ==
  CASE type.name = "Bool" -> Ok([kind |-> "KeywordType", keyword |-> "BooleanKeyword"], st)
    [] type.name = "Dynamic" -> Ok([kind |-> "KeywordType", keyword |-> "AnyKeyword"], st)
    [] type.name \in {"Int", "Number"} ->
         Ok([kind |-> "KeywordType", keyword |-> "NumberKeyword"], st)
    [] type.name = "String" -> Ok([kind |-> "KeywordType", keyword |-> "StringKeyword"], st)
    [] type.name = "None" -> Ok([kind |-> "KeywordType", keyword |-> "NeverKeyword"], st)
    [] OTHER -> Throw("Unsupported builtin type: " \o type.name, st)

\* typeParams is NullNode (null) or a NodeArray of types.
visitTypeParams(typeParams, v, context, st, parent) ==
  IF typeParams = NullNode THEN Ok(NullNode, st)
  ELSE mapVisit("Type", typeParams.items, v, context, st, parent, "typeParams")

visitExpressionType(type, v, context, st) ==
  LET expr == Visit("Expression", type.value, v, context, st, "visitExpressionType", "value")
  IN IF ~expr.ok THEN expr ELSE
  LET typeArgs == visitTypeParams(type.typeParams, v, context, expr.st,
                                  "visitExpressionType")
  IN IF ~typeArgs.ok THEN typeArgs
     ELSE Ok([kind |-> "TypeReference", typeName |-> expr.out,
              typeArguments |-> typeArgs.out], typeArgs.st)

\* type.visitType(this, context): the ArrayType itself is visited again, and
\* ArrayType.visitType dispatches back to visitArrayType.
visitArrayType(type, v, context, st) ==
  LET inner == Visit("Type", type, v, context, st, "visitArrayType", "type")
  IN IF ~inner.ok THEN inner
     ELSE Ok([kind |-> "ArrayType", elementType |-> inner.out], inner.st)

visitMapType(type, v, context, st) ==
  LET typeArgs == IF type.valueType # NullNode
                  THEN Visit("Type", type.valueType, v, context, st,
                                 "visitMapType", "valueType")
                  ELSE Ok(NullNode, st)
  IN IF ~typeArgs.ok THEN typeArgs
     ELSE Ok([kind |-> "TypeLiteral",
              members |-> <<[kind |-> "IndexSignature",
                             parameters |-> <<[kind |-> "Parameter",
                                               name |-> createIdentifier("key"),
                                               type |-> [kind |-> "KeywordType",
                                                         keyword |-> "StringKeyword"]]>>,
                             type |-> typeArgs.out]>>], typeArgs.st)

Type_visitReadVarExpr(ast, v, context, st) ==
  IF ast.name = NULL THEN Throw("ReadVarExpr with no variable name in type", st)
  ELSE Ok([kind |-> "string", text |-> ast.name], st)

Type_visitLiteralExpr(ast, v, context, st) ==
  Ok([kind |-> "Literal", text |-> ast.literal], st)

Type_visitLocalizedString(ast, v, context, st) ==
  localizedStringHelper(ast, context, v, st)

Type_visitExternalExpr(ast, v, context, st) ==
  IF ast.value.moduleName = NULL \/ ast.value.name = NULL
  THEN Throw("Import unknown module or symbol", st)
  ELSE LET r == generateNamedImport(v.rewriter, v.prefix, st.im,
                                    ast.value.moduleName, ast.value.name)
           symbolIdentifier == createIdentifier(r.symbol)
           typeName == IF r.moduleImport # NULL
                       THEN createPropertyAccess(createIdentifier(r.moduleImport),
                                                 symbolIdentifier)
                       ELSE symbolIdentifier
           typeArguments == visitTypeParams(ast.typeParams, v, context,
                                            [st EXCEPT !.im = r.im], "visitExternalExpr")
       IN IF ~typeArguments.ok THEN typeArguments
          ELSE Ok([kind |-> "ExpressionWithTypeArguments", expression |-> typeName,
                   typeArguments |-> typeArguments.out], typeArguments.st)

Type_visitLiteralArrayExpr(ast, v, context, st) ==
  LET values == mapVisit("Expression", ast.entries, v, context, st,
                                   "visitLiteralArrayExpr", "entries")
  IN IF ~values.ok THEN values
     ELSE Ok([kind |-> "TupleType", elementTypes |-> values.out.items], values.st)

\* quoted ? `'${key}'` : key
Type_createLiteralMapName(entry) ==
  createIdentifier(IF entry.quoted THEN "'" \o entry.key \o "'" ELSE entry.key)

Type_literalMapEntries(entries, v, context, st) ==
  LET upTo[n \in 0..Len(entries)] ==
        IF n = 0 THEN Ok(NodeArray(<<>>), st)
        ELSE LET before == upTo[n - 1] IN
             IF ~before.ok THEN before
             ELSE LET value == Visit("Expression", entries[n].value, v, context,
                                     before.st, "visitLiteralMapExpr", "entries")
                  IN IF ~value.ok THEN value
                     ELSE Ok(NodeArray(Append(before.out.items,
                                              [kind |-> "PropertyAssignment",
                                               name |-> Type_createLiteralMapName(entries[n]),
                                               initializer |-> value.out])), value.st)
  IN upTo[Len(entries)]

Type_visitLiteralMapExpr(ast, v, context, st) ==
  LET entries == Type_literalMapEntries(ast.entries, v, context, st)
  IN IF ~entries.ok THEN entries
     ELSE Ok([kind |-> "ObjectLiteralExpression", properties |-> entries.out.items],
             entries.st)

Type_visitWrappedNodeExpr(ast, v, context, st) ==
  IF ast.node.kind = "Identifier" THEN Ok(ast.node, st)
  ELSE Throw("Unsupported WrappedNodeExpr in TypeTranslatorVisitor: " \o ast.node.kind, st)

Type_visitTypeofExpr(ast, v, context, st) ==
  LET expr == translateExpression(ast.expr, ES2015, "NOOP_DEFAULT_IMPORT_RECORDER", v, st)
  IN IF ~expr.ok THEN expr
     ELSE Ok([kind |-> "TypeQuery", exprName |-> expr.out], expr.st)

\* visitWriteVarExpr, visitWriteKeyExpr, visitWritePropExpr, visitInvokeMethodExpr,
\* visitInvokeFunctionExpr, visitInstantiateExpr, visitConditionalExpr, visitNotExpr,
\* visitAssertNotNullExpr, visitCastExpr, visitFunctionExpr, visitBinaryOperatorExpr,
\* visitReadPropExpr, visitReadKeyExpr and visitCommaExpr of the type translator.
Type_visitNotImplemented(ast, v, context, st) == Throw("Method not implemented.", st)

-----------------------------------------------------------------------------
(* Dispatch: node.visitExpression(visitor, context) calls the visitor's    *)
(* method for the node's kind (and likewise visitStatement, visitType).    *)
(* Every call takes a frame of the host call stack; past StackLimit frames *)
(* the host throws a RangeError.                                           *)

Logged(r, st, parent, role, node, context) ==
  [ok |-> r.ok, out |-> r.out,
   st |-> [r.st EXCEPT !.depth = st.depth,
                       !.log = @ \cup {[parent |-> parent, role |-> role,
                                        node |-> node.kind,
                                        isStatement |-> context.isStatement,
                                        out |-> r.out.kind]}]]

StackOverflow(st) == Throw("RangeError: Maximum call stack size exceeded", st)

Visit(sort, node, v, context, st, parent, role) ==
  IF st.depth >= StackLimit THEN StackOverflow(st)
  ELSE LET s1 == [st EXCEPT !.depth = @ + 1]
           k == node.kind
           r == IF sort = "Statement" THEN
                  CASE k = "DeclareVarStmt" -> visitDeclareVarStmt(node, v, context, s1)
                    [] k = "DeclareFunctionStmt" -> visitDeclareFunctionStmt(node, v, context, s1)
                    [] k = "ExpressionStatement" -> visitExpressionStmt(node, v, context, s1)
                    [] k = "ReturnStatement" -> visitReturnStmt(node, v, context, s1)
                    [] k = "ClassStmt" -> visitDeclareClassStmt(node, v, context, s1)
                    [] k = "IfStmt" -> visitIfStmt(node, v, context, s1)
                    [] k = "TryCatchStmt" -> visitTryCatchStmt(node, v, context, s1)
                    [] k = "ThrowStmt" -> visitThrowStmt(node, v, context, s1)
                    [] k = "CommentStmt" -> visitCommentStmt(node, v, context, s1)
                    [] k = "JSDocCommentStmt" -> visitJSDocCommentStmt(node, v, context, s1)
                ELSE IF sort = "Type" THEN
                  CASE k = "BuiltinType" -> visitBuiltinType(node, v, context, s1)
                    [] k = "ExpressionType" -> visitExpressionType(node, v, context, s1)
                    [] k = "ArrayType" -> visitArrayType(node, v, context, s1)
                    [] k = "MapType" -> visitMapType(node, v, context, s1)
                ELSE IF v.visitor = "TypeTranslatorVisitor" THEN
                  CASE k = "ReadVarExpr" -> Type_visitReadVarExpr(node, v, context, s1)
                    [] k = "LiteralExpr" -> Type_visitLiteralExpr(node, v, context, s1)
                    [] k = "LocalizedString" -> Type_visitLocalizedString(node, v, context, s1)
                    [] k = "ExternalExpr" -> Type_visitExternalExpr(node, v, context, s1)
                    [] k = "LiteralArrayExpr" -> Type_visitLiteralArrayExpr(node, v, context, s1)
                    [] k = "LiteralMapExpr" -> Type_visitLiteralMapExpr(node, v, context, s1)
                    [] k = "WrappedNodeExpr" -> Type_visitWrappedNodeExpr(node, v, context, s1)
                    [] k = "TypeofExpr" -> Type_visitTypeofExpr(node, v, context, s1)
                    [] OTHER -> Type_visitNotImplemented(node, v, context, s1)
                ELSE
                  CASE k = "ReadVarExpr" -> visitReadVarExpr(node, v, context, s1)
                    [] k = "WriteVarExpr" -> visitWriteVarExpr(node, v, context, s1)
                    [] k = "WriteKeyExpr" -> visitWriteKeyExpr(node, v, context, s1)
                    [] k = "WritePropExpr" -> visitWritePropExpr(node, v, context, s1)
                    [] k = "InvokeMethodExpr" -> visitInvokeMethodExpr(node, v, context, s1)
                    [] k = "InvokeFunctionExpr" -> visitInvokeFunctionExpr(node, v, context, s1)
                    [] k = "InstantiateExpr" -> visitInstantiateExpr(node, v, context, s1)
                    [] k = "LiteralExpr" -> visitLiteralExpr(node, v, context, s1)
                    [] k = "LocalizedString" -> visitLocalizedString(node, v, context, s1)
                    [] k = "ExternalExpr" -> visitExternalExpr(node, v, context, s1)
                    [] k = "ConditionalExpr" -> visitConditionalExpr(node, v, context, s1)
                    [] k = "NotExpr" -> visitNotExpr(node, v, context, s1)
                    [] k = "AssertNotNull" -> visitAssertNotNullExpr(node, v, context, s1)
                    [] k = "CastExpr" -> visitCastExpr(node, v, context, s1)
                    [] k = "FunctionExpr" -> visitFunctionExpr(node, v, context, s1)
                    [] k = "BinaryOperatorExpr" -> visitBinaryOperatorExpr(node, v, context, s1)
                    [] k = "ReadPropExpr" -> visitReadPropExpr(node, v, context, s1)
                    [] k = "ReadKeyExpr" -> visitReadKeyExpr(node, v, context, s1)
                    [] k = "LiteralArrayExpr" -> visitLiteralArrayExpr(node, v, context, s1)
                    [] k = "LiteralMapExpr" -> visitLiteralMapExpr(node, v, context, s1)
                    [] k = "CommaExpr" -> visitCommaExpr(node, v, context, s1)
                    [] k = "WrappedNodeExpr" -> visitWrappedNodeExpr(node, v, context, s1)
                    [] k = "TypeofExpr" -> visitTypeofExpr(node, v, context, s1)
       IN Logged(r, st, parent, role, node, context)

-----------------------------------------------------------------------------
(* Specification Spec: one ImportManager and any sequence of calls on it.  *)

Init ==
  /\ rewriter \in Rewriters
  /\ prefix \in Prefixes
  /\ specifierToIdentifier = <<>>
  /\ nextIndex = 0
  /\ ret = [op |-> "new"]
  /\ returned = {}
  /\ firstOrder = <<>>
  /\ rereferenced = {}
  /\ listed = <<>>

GenerateNamedImport(moduleName, originalSymbol) ==
  LET r == generateNamedImport(rewriter, prefix, TheImports, moduleName, originalSymbol) IN
  /\ specifierToIdentifier' = r.im.specifierToIdentifier
  /\ nextIndex' = r.im.nextIndex
  /\ ret' = [op |-> "generateNamedImport", moduleName |-> moduleName,
             originalSymbol |-> originalSymbol,
             moduleImport |-> r.moduleImport, symbol |-> r.symbol]
  /\ returned' = returned \cup {<<moduleName, r.moduleImport>>}
  /\ firstOrder' =
       IF r.moduleImport # NULL /\ \A i \in 1..Len(firstOrder) : firstOrder[i] # moduleName
       THEN Append(firstOrder, moduleName) ELSE firstOrder
  /\ rereferenced' =
       IF r.moduleImport # NULL /\ \E i \in 1..Len(firstOrder) : firstOrder[i] = moduleName
       THEN rereferenced \cup {moduleName} ELSE rereferenced
  /\ UNCHANGED <<rewriter, prefix, listed>>

Listed(history, imports) ==
  IF Len(history) < 2 THEN Append(history, imports) ELSE <<history[2], imports>>

\* A plausible slip: listing the imports drains the map.
GetAllImports_Draining(contextPath) ==
  /\ ret' = [op |-> "getAllImports", contextPath |-> contextPath,
             imports |-> getAllImports(rewriter, TheImports, contextPath)]
  /\ listed' = Listed(listed, getAllImports(rewriter, TheImports, contextPath))
  /\ specifierToIdentifier' = <<>>
  /\ UNCHANGED <<rewriter, prefix, nextIndex, returned, firstOrder, rereferenced>>

GetAllImports(contextPath) ==
  /\ ret' = [op |-> "getAllImports", contextPath |-> contextPath,
             imports |-> getAllImports(rewriter, TheImports, contextPath)]
  /\ listed' = Listed(listed, getAllImports(rewriter, TheImports, contextPath))
  /\ UNCHANGED <<rewriter, prefix, specifierToIdentifier, nextIndex, returned, firstOrder,
                 rereferenced>>

Next ==
  \/ \E m \in ModuleNames, s \in SymbolNames : GenerateNamedImport(m, s)
  \/ \E p \in ContextPaths : GetAllImports(p)

Spec == Init /\ [][Next]_vars

-----------------------------------------------------------------------------
(* IR nodes (the output AST of @angular/compiler).  Every statement        *)
(* carries its `modifiers`.                                                *)

ReadVarExpr(name) == [kind |-> "ReadVarExpr", name |-> name]
WriteVarExpr(name, value) == [kind |-> "WriteVarExpr", name |-> name, value |-> value]
WriteKeyExpr(receiver, index, value) ==
  [kind |-> "WriteKeyExpr", receiver |-> receiver, index |-> index, value |-> value]
WritePropExpr(receiver, name, value) ==
  [kind |-> "WritePropExpr", receiver |-> receiver, name |-> name, value |-> value]
InvokeMethodExpr(receiver, name, args) ==
  [kind |-> "InvokeMethodExpr", receiver |-> receiver, name |-> name, args |-> args]
InvokeFunctionExpr(fn, args, pure) ==
  [kind |-> "InvokeFunctionExpr", fn |-> fn, args |-> args, pure |-> pure]
InstantiateExpr(classExpr, args) ==
  [kind |-> "InstantiateExpr", classExpr |-> classExpr, args |-> args]
LiteralExpr(literal) == [kind |-> "LiteralExpr", literal |-> literal]
LocalizedString(messageParts, expressions) ==
  [kind |-> "LocalizedString", messageParts |-> messageParts, expressions |-> expressions]
ExternalExpr(moduleName, name, typeParams) ==
  [kind |-> "ExternalExpr", value |-> [moduleName |-> moduleName, name |-> name],
   typeParams |-> typeParams]
ConditionalExpr(condition, trueCase, falseCase) ==
  [kind |-> "ConditionalExpr", condition |-> condition, trueCase |-> trueCase,
   falseCase |-> falseCase]
NotExpr(condition) == [kind |-> "NotExpr", condition |-> condition]
AssertNotNull(condition) == [kind |-> "AssertNotNull", condition |-> condition]
CastExpr(value) == [kind |-> "CastExpr", value |-> value]
FunctionExpr(params, statements, name) ==
  [kind |-> "FunctionExpr", params |-> params, statements |-> statements, name |-> name]
BinaryOperatorExpr(operator, lhs, rhs) ==
  [kind |-> "BinaryOperatorExpr", operator |-> operator, lhs |-> lhs, rhs |-> rhs]
ReadPropExpr(receiver, name) == [kind |-> "ReadPropExpr", receiver |-> receiver, name |-> name]
ReadKeyExpr(receiver, index) ==
  [kind |-> "ReadKeyExpr", receiver |-> receiver, index |-> index]
LiteralArrayExpr(entries) == [kind |-> "LiteralArrayExpr", entries |-> entries]
LiteralMapExpr(entries) == [kind |-> "LiteralMapExpr", entries |-> entries]
CommaExpr(parts) == [kind |-> "CommaExpr", parts |-> parts]
WrappedNodeExpr(node) == [kind |-> "WrappedNodeExpr", node |-> node]
TypeofExpr(expr) == [kind |-> "TypeofExpr", expr |-> expr]

DeclareVarStmt(name, value, modifiers) ==
  [kind |-> "DeclareVarStmt", name |-> name, value |-> value, modifiers |-> modifiers]
DeclareFunctionStmt(name, params, statements) ==
  [kind |-> "DeclareFunctionStmt", name |-> name, params |-> params,
   statements |-> statements, modifiers |-> {}]
ExpressionStatement(expr) == [kind |-> "ExpressionStatement", expr |-> expr, modifiers |-> {}]
ReturnStatement(value) == [kind |-> "ReturnStatement", value |-> value, modifiers |-> {}]
ClassStmt(name) == [kind |-> "ClassStmt", name |-> name, modifiers |-> {}]
IfStmt(condition, trueCase, falseCase) ==
  [kind |-> "IfStmt", condition |-> condition, trueCase |-> trueCase,
   falseCase |-> falseCase, modifiers |-> {}]
TryCatchStmt(bodyStmts, catchStmts) ==
  [kind |-> "TryCatchStmt", bodyStmts |-> bodyStmts, catchStmts |-> catchStmts,
   modifiers |-> {}]
ThrowStmt(error) == [kind |-> "ThrowStmt", error |-> error, modifiers |-> {}]
CommentStmt(comment) == [kind |-> "CommentStmt", comment |-> comment, modifiers |-> {}]
JSDocCommentStmt(text) == [kind |-> "JSDocCommentStmt", text |-> text, modifiers |-> {}]

BuiltinType(name) == [kind |-> "BuiltinType", name |-> name]
ExpressionType(value, typeParams) ==
  [kind |-> "ExpressionType", value |-> value, typeParams |-> typeParams]
ArrayType(of) == [kind |-> "ArrayType", of |-> of]
MapType(valueType) == [kind |-> "MapType", valueType |-> valueType]

-----------------------------------------------------------------------------
(* The IR trees the translations are given.  Trees are built to depth      *)
(* MaxDepth along one path: every construct that changes or forwards the   *)
(* Context wraps every smaller tree, and every other construct is applied  *)
(* once, in each of its child positions, to the operands in Operands.      *)

X == ReadVarExpr("x")
One == LiteralExpr("1")

Unsupported == {"ClassStmt", "TryCatchStmt", "CommentStmt", "CommaExpr"}

AtomExprs ==
  {X, One, CommaExpr(<<X, One>>),
   ExternalExpr(NULL, "Array", NullNode), ExternalExpr("m1", "A", NullNode)}

AtomStmts ==
  {ClassStmt("C"), TryCatchStmt(<<>>, <<>>), CommentStmt("c"), JSDocCommentStmt("doc"),
   DeclareVarStmt("v", NullNode, {Final})}

ExprsOverExpr(e) ==
  {WriteVarExpr("w", e), WriteKeyExpr(X, One, e), WritePropExpr(X, "p", e),
   LiteralArrayExpr(<<e>>)}

ExprsOverStmt(s) == {FunctionExpr(<<"a">>, <<s>>, NULL)}

StmtsOverExpr(e) ==
  {ExpressionStatement(e), ReturnStatement(e), ThrowStmt(e), IfStmt(e, <<>>, <<>>),
   DeclareVarStmt("v", e, {Final})}

StmtsOverStmt(s) ==
  {IfStmt(X, <<s>>, <<>>), IfStmt(X, <<>>, <<s>>),
   DeclareFunctionStmt("f", <<"a">>, <<s>>)}

RECURSIVE Exprs(_)
RECURSIVE Stmts(_)
Exprs(d) ==
  IF d = 0 THEN AtomExprs
  ELSE AtomExprs \cup UNION {ExprsOverExpr(e) : e \in Exprs(d - 1)}
                 \cup UNION {ExprsOverStmt(s) : s \in Stmts(d - 1)}

Stmts(d) ==
  IF d = 0 THEN AtomStmts
  ELSE AtomStmts \cup UNION {StmtsOverExpr(e) : e \in Exprs(d - 1)}
                 \cup UNION {StmtsOverStmt(s) : s \in Stmts(d - 1)}

Operands ==
  AtomExprs \cup {WriteVarExpr("w", One), WriteKeyExpr(X, One, One),
                  WritePropExpr(X, "p", One)}

\* n + 1 message parts "p0" .. "pn"
MessageParts(n) == [i \in 1..(n + 1) |-> "p" \o ToString(i - 1)]

LocalizedOperands == {X, ReadVarExpr("y"), WriteVarExpr("w", One)}

LocalizedStrings ==
  UNION {{LocalizedString(MessageParts(n), es) : es \in [1..n -> LocalizedOperands]}
         : n \in 0..MaxExpressions}

OtherExprsOver(a) ==
  {WriteKeyExpr(a, One, One), WriteKeyExpr(X, a, One), WritePropExpr(a, "p", One),
   InvokeMethodExpr(a, "m", <<X>>), InvokeMethodExpr(X, NULL, <<a>>),
   InvokeFunctionExpr(a, <<X>>, TRUE), InvokeFunctionExpr(X, <<One, a>>, FALSE),
   InstantiateExpr(a, <<X>>), InstantiateExpr(X, <<a>>),
   ConditionalExpr(a, X, One), ConditionalExpr(X, a, One), ConditionalExpr(X, One, a),
   NotExpr(a), AssertNotNull(a), CastExpr(a),
   BinaryOperatorExpr("Plus", a, X), BinaryOperatorExpr("And", X, a),
   BinaryOperatorExpr("Nullish", a, X),
   ReadPropExpr(a, "p"), ReadKeyExpr(a, X), ReadKeyExpr(X, a),
   LiteralArrayExpr(<<ExternalExpr("m2", "B", NullNode), a>>),
   LiteralMapExpr(<<[key |-> "k", quoted |-> TRUE, value |-> a],
                    [key |-> "j", quoted |-> FALSE, value |-> X]>>),
   TypeofExpr(a)}

OtherExprs ==
  UNION {OtherExprsOver(a) : a \in Operands} \cup LocalizedStrings \cup
  {LiteralExpr(UNDEFINED), LiteralExpr(NULL), LiteralExpr("'s'"),
   ExternalExpr("m1", NULL, NullNode), ExternalExpr("m2", "A", NullNode),
   ExternalExpr(NULL, NULL, NullNode), ExternalExpr(NULL, "B", NullNode),
   WrappedNodeExpr(createIdentifier("n")), WrappedNodeExpr([kind |-> "ThisKeyword"]),
   FunctionExpr(<<>>, <<>>, "g")}

OtherStmts ==
  {DeclareVarStmt("v", a, {}) : a \in Operands} \cup
  {DeclareVarStmt("v", NullNode, {}),
   DeclareFunctionStmt("f", <<>>, <<>>),
   IfStmt(X, <<ExpressionStatement(One)>>, <<ReturnStatement(X)>>)}

ExpressionInputs ==
  Exprs(MaxDepth) \cup UNION {ExprsOverStmt(s) : s \in Stmts(MaxDepth)} \cup OtherExprs

StatementInputs == Stmts(MaxDepth) \cup OtherStmts

TypeValueExprs ==
  {X, ReadVarExpr(NULL), One, NotExpr(X), WriteVarExpr("w", One),
   ExternalExpr("m1", "A", NullNode), ExternalExpr(NULL, "Array", NullNode),
   ExternalExpr("m2", NULL, NullNode),
   WrappedNodeExpr(createIdentifier("n")), WrappedNodeExpr([kind |-> "ThisKeyword"]),
   TypeofExpr(ExternalExpr("m1", "A", NullNode)), TypeofExpr(WriteVarExpr("w", One)),
   TypeofExpr(WrappedNodeExpr(createIdentifier("n"))),
   LiteralArrayExpr(<<X, One>>),
   LiteralMapExpr(<<[key |-> "k", quoted |-> TRUE, value |-> X]>>),
   LocalizedString(MessageParts(1), <<X>>)}

BuiltinTypeNames ==
  {"Dynamic", "Bool", "String", "Int", "Number", "Function", "Inferred", "None"}

AtomTypes ==
  {BuiltinType(n) : n \in BuiltinTypeNames} \cup
  {ExpressionType(e, NullNode) : e \in TypeValueExprs} \cup {MapType(NullNode)}

TypesOver(t) ==
  {ArrayType(t), MapType(t), ExpressionType(X, NodeArray(<<t>>)),
   ExpressionType(ExternalExpr("m2", "B", NodeArray(<<t>>)), NullNode)}

RECURSIVE Types(_)
Types(d) ==
  IF d = 0 THEN AtomTypes
  ELSE AtomTypes \cup UNION {TypesOver(t) : t \in Types(d - 1)}

TypeInputs == Types(MaxDepth)

-----------------------------------------------------------------------------
(* Specification SpecTranslator: one ImportManager, on which earlier       *)
(* translations of the unit have resolved imports (GenerateNamedImport     *)
(* steps), and then one call of an entry point.  Each entry point builds a *)
(* fresh visitor, so what an earlier translation leaves behind is the      *)
(* ImportManager alone.                                                    *)

TranslatorRewriters ==
  {[kind |-> "Noop", elided |-> {}], [kind |-> "Core", elided |-> {"A"}]}

PriorModules == {"m2"}
PriorSymbols == {"A"}

NoTranslationYet == ret.op \in {"new", "generateNamedImport"}

TheVisitorArgs == [rewriter |-> rewriter, prefix |-> prefix]

WalkStart == [im |-> TheImports, used |-> {}, depth |-> 0, log |-> {}]

Translated(op, input, scriptTarget, r) ==
  /\ specifierToIdentifier' = r.st.im.specifierToIdentifier
  /\ nextIndex' = r.st.im.nextIndex
  /\ ret' = [op |-> op, input |-> input, scriptTarget |-> scriptTarget,
             ok |-> r.ok, out |-> r.out, log |-> r.st.log, used |-> r.st.used,
             before |-> TheImports]
  /\ UNCHANGED <<rewriter, prefix, returned, firstOrder, rereferenced, listed>>

InitTranslator ==
  /\ Init
  /\ rewriter \in TranslatorRewriters
  /\ prefix = "i"

TranslateExpression ==
  /\ NoTranslationYet
  /\ \E expression \in ExpressionInputs, scriptTarget \in ScriptTargets :
       Translated("translateExpression", expression, scriptTarget,
                  translateExpression(expression, scriptTarget, "recorder",
                                      TheVisitorArgs, WalkStart))

TranslateStatement ==
  /\ NoTranslationYet
  /\ \E statement \in StatementInputs, scriptTarget \in ScriptTargets :
       Translated("translateStatement", statement, scriptTarget,
                  translateStatement(statement, scriptTarget, "recorder",
                                     TheVisitorArgs, WalkStart))

TranslateType ==
  /\ NoTranslationYet
  /\ \E type \in TypeInputs :
       Translated("translateType", type, ES2015,
                  translateType(type, TheVisitorArgs, WalkStart))

ResolveEarlier ==
  /\ NoTranslationYet
  /\ \E m \in PriorModules, s \in PriorSymbols : GenerateNamedImport(m, s)

NextTranslator ==
  \/ ResolveEarlier
  \/ TranslateExpression
  \/ TranslateStatement
  \/ TranslateType

SpecTranslator == InitTranslator /\ [][NextTranslator]_vars

-----------------------------------------------------------------------------
(* Claims about the ImportManager, checked under Spec.                     *)

AlwaysImport(rw) ==
  \A m \in ModuleNames, s \in SymbolNames :
    shouldImportSymbol(rw, rewriteSymbol(rw, s, m), m)

\* C2: with an always-import policy, any two generateNamedImport calls made on
\* one ImportManager return the same alias exactly when they name the same
\* module: same module => same alias, different modules => different aliases
\* (and no call returns a null alias).
C2_AliasPerModule ==
  AlwaysImport(rewriter) =>
    \A p \in returned, q \in returned :
      /\ p[2] # NULL
      /\ (p[1] = q[1]) <=> (p[2] = q[2])

C2_Witness ==
  /\ AlwaysImport(rewriter)
  /\ Len(firstOrder) >= 2
  /\ ret.op = "generateNamedImport"
  /\ ret.moduleName = firstOrder[1]
  /\ firstOrder[1] \in rereferenced

\* C3: getAllImports returns exactly one entry per imported module, in the
\* order of each module's first import-producing generateNamedImport call,
\* each with the alias that call returned; repeated references neither
\* reorder nor duplicate entries.
C3_FirstResolvedOrder ==
  ret.op = "getAllImports" =>
    /\ Len(ret.imports) = Len(firstOrder)
    /\ \A i \in 1..Len(firstOrder) :
         /\ ret.imports[i].specifier =
              rewriteSpecifier(rewriter, firstOrder[i], ret.contextPath)
         /\ <<firstOrder[i], ret.imports[i].qualifier>> \in returned
         /\ ret.imports[i].qualifier # NULL

C3_Witness ==
  /\ ret.op = "getAllImports"
  /\ Len(ret.imports) >= 2
  /\ firstOrder[1] \in rereferenced
  /\ firstOrder[1] # "m1"

\* C5: a generateNamedImport call for which the policy answers
\* shouldImportSymbol = false (for the rewritten symbol) returns a null
\* module alias with the rewritten symbol, and leaves the alias map and the
\* counter unchanged; every module in the map has had an import-producing call.
C5_ElidedCallAllocatesNothing ==
  [][(/\ ret'.op = "generateNamedImport"
      /\ ~shouldImportSymbol(rewriter,
             rewriteSymbol(rewriter, ret'.originalSymbol, ret'.moduleName),
             ret'.moduleName))
     => /\ ret'.moduleImport = NULL
        /\ ret'.symbol = rewriteSymbol(rewriter, ret'.originalSymbol, ret'.moduleName)
        /\ specifierToIdentifier' = specifierToIdentifier
        /\ nextIndex' = nextIndex
        /\ \A i \in 1..Len(specifierToIdentifier') :
             \E j \in 1..Len(firstOrder') :
               firstOrder'[j] = specifierToIdentifier'[i].specifier]_vars

C5_Witness ==
  /\ ret.op = "generateNamedImport"
  /\ ret.moduleImport = NULL
  /\ ret.symbol = "r_A"
  /\ Len(specifierToIdentifier) >= 1
  /\ ~MapHas(specifierToIdentifier, ret.moduleName)
  /\ nextIndex = Len(specifierToIdentifier)

-----------------------------------------------------------------------------
(* Claims about the translators, checked under SpecTranslator.             *)

TranslatedByExpressionTranslator == ret.op \in {"translateExpression", "translateStatement"}

AssignmentKinds == {"WriteVarExpr", "WriteKeyExpr", "WritePropExpr"}

\* C1: whenever the expression translator visits an assignment (write-variable,
\* write-indexed, write-property) and the visit returns, it returns a
\* parenthesized assignment if the Context it was visited with is
\* expression-mode, and a bare assignment if it is statement-mode.
C1_AssignmentParenthesizedByMode ==
  TranslatedByExpressionTranslator =>
    \A e \in ret.log :
      (e.node \in AssignmentKinds /\ e.out # "Error") =>
        e.out = (IF e.isStatement THEN "BinaryExpression" ELSE "ParenthesizedExpression")

\* C4: translating an external reference with a null module name and a
\* non-null symbol name gives the bare identifier of the symbol and leaves the
\* ImportManager's alias map and counter as they were.
C4_AmbientReferenceAllocatesNothing ==
  (/\ ret.op = "translateExpression"
   /\ ret.input.kind = "ExternalExpr"
   /\ ret.input.value.moduleName = NULL
   /\ ret.input.value.name # NULL)
  => /\ ret.ok
     /\ ret.out = createIdentifier(ret.input.value.name)
     /\ TheImports = ret.before

C4_Witness ==
  /\ ret.op = "translateExpression"
  /\ ret.input = ExternalExpr(NULL, "Array", NullNode)
  /\ ret.out = createIdentifier("Array")
  /\ Len(specifierToIdentifier) = 1
  /\ nextIndex = 1

\* C6: a localized string with n + 1 message parts and n expressions becomes a
\* no-substitution template of part 0 if n = 0, and otherwise a head of part 0
\* and exactly n spans, span i pairing expression i - 1 with message part i,
\* the literal of span n a tail and the literals of the spans before it middles.
C6_LocalizedStringSpans ==
  (ret.op = "translateExpression" /\ ret.input.kind = "LocalizedString" /\ ret.ok) =>
    LET n == Len(ret.input.expressions)
        template == ret.out.template
    IN IF n = 0
       THEN /\ template.kind = "NoSubstitutionTemplateLiteral"
            /\ template.part = 0
            /\ template.text = ret.input.messageParts[1]
       ELSE /\ template.kind = "TemplateExpression"
            /\ template.head.kind = "TemplateHead"
            /\ template.head.part = 0
            /\ template.head.text = ret.input.messageParts[1]
            /\ Len(template.templateSpans) = n
            /\ \A i \in 1..n :
                 LET span == template.templateSpans[i]
                     expression == ret.input.expressions[i]
                 IN /\ span.literal.part = i
                    /\ span.literal.text = ret.input.messageParts[i + 1]
                    /\ span.literal.kind =
                         (IF i = n THEN "TemplateTail" ELSE "TemplateMiddle")
                    /\ IF expression.kind = "ReadVarExpr"
                       THEN span.expression = createIdentifier(expression.name)
                       ELSE span.expression.kind = "ParenthesizedExpression"

C6_Witness ==
  /\ ret.op = "translateExpression"
  /\ ret.input.kind = "LocalizedString"
  /\ ret.ok
  /\ Len(ret.input.expressions) = 2
  /\ ret.input.expressions[1] # ret.input.expressions[2]
  /\ ret.out.template.templateSpans[1].literal.kind = "TemplateMiddle"
  /\ ret.out.template.templateSpans[2].literal.kind = "TemplateTail"

\* C7: a variable declaration is emitted as a constant declaration exactly when
\* the IR node has the Final modifier and the target is ES2015 or higher, and
\* as a mutable declaration otherwise.
C7_ConstIffFinalAndES2015 ==
  (ret.op = "translateStatement" /\ ret.input.kind = "DeclareVarStmt" /\ ret.ok) =>
    /\ ret.out.kind = "VariableStatement"
    /\ ret.out.declarationList.flags \in {"Const", "None"}
    /\ ret.out.declarationList.flags = "Const" <=>
         (Final \in ret.input.modifiers /\ ret.scriptTarget >= ES2015)

C7_Witness ==
  /\ ret.op = "translateStatement"
  /\ ret.input.kind = "DeclareVarStmt"
  /\ Final \in ret.input.modifiers
  /\ ret.input.value # NullNode
  /\ ret.scriptTarget = ES2015
  /\ ret.ok
  /\ ret.out.declarationList.flags = "Const"

\* C8: for every target and every Context, when the walk of translateStatement
\* or translateExpression reaches a class declaration, a try/catch statement,
\* a bare comment statement or a comma expression, the visit of that node
\* raises and the translation of the whole tree raises: no output node.
C8_UnsupportedRaises ==
  TranslatedByExpressionTranslator =>
    \A e \in ret.log :
      e.node \in Unsupported =>
        /\ e.out = "Error"
        /\ ~ret.ok
        /\ ret.out.kind = "Error"

C8_Witness ==
  /\ ret.op = "translateExpression"
  /\ ret.scriptTarget = ES2016
  /\ ~ret.ok
  /\ \E e \in ret.log :
       e.node = "ClassStmt" /\ e.parent = "visitIfStmt" /\ e.isStatement
  /\ \E e \in ret.log : e.node = "FunctionExpr" /\ ~e.isStatement

SupportedBuiltinTypeNames == {"Bool", "Dynamic", "Int", "Number", "String", "None"}

\* C9: translateType of an array-of type whose element type is translatable
\* (here: a supported builtin type) returns an array-type node wrapping the
\* translation of the element type.
C9_ArrayTypeWrapsElement ==
  (/\ ret.op = "translateType"
   /\ ret.input.kind = "ArrayType"
   /\ ret.input.of.kind = "BuiltinType"
   /\ ret.input.of.name \in SupportedBuiltinTypeNames)
  => /\ ret.ok
     /\ ret.out.kind = "ArrayType"
     /\ ret.out.elementType =
          visitBuiltinType(ret.input.of, TypeVisitor(TheVisitorArgs), Context(FALSE),
                           WalkStart).out

\* C10: whatever Context an if, return or throw statement is visited with, its
\* condition / return operand / throw operand is visited with an
\* expression-mode Context, and the statements of the if's true and false
\* blocks are visited with a statement-mode Context.
C10_OperandsInExpressionMode ==
  TranslatedByExpressionTranslator =>
    \A e \in ret.log :
      /\ (\/ e.parent = "visitIfStmt" /\ e.role = "condition"
          \/ e.parent = "visitReturnStmt" /\ e.role = "value"
          \/ e.parent = "visitThrowStmt" /\ e.role = "error") => ~e.isStatement
      /\ (e.parent = "visitIfStmt" /\ e.role \in {"trueCase", "falseCase"})
           => e.isStatement

\* The state a walk starts in when it runs on the ImportManager as it was
\* before the translation recorded in ret.
WalkStartBefore == [im |-> ret.before, used |-> {}, depth |-> 0, log |-> {}]

\* C11: the body statements of a function expression are translated the same
\* whether the function expression is visited in expression mode (as the root
\* of translateExpression) or in statement mode (as the expression of an
\* expression statement given to translateStatement): both walks succeed or
\* both raise, and when they succeed the two function bodies are equal.
C11_FunctionBodyIndependentOfMode ==
  (ret.op = "translateExpression" /\ ret.input.kind = "FunctionExpr") =>
    LET inStatementMode ==
          translateStatement(ExpressionStatement(ret.input), ret.scriptTarget,
                             "recorder", TheVisitorArgs, WalkStartBefore)
    IN /\ inStatementMode.ok = ret.ok
       /\ ret.ok => inStatementMode.out.expression.body = ret.out.body

-----------------------------------------------------------------------------
(* Further claims about the ImportManager, checked under Spec.             *)

AliasMapWellFormed ==
  LET map == specifierToIdentifier
      n == Len(map)
  IN /\ nextIndex = n
     /\ {map[i].identifier : i \in 1..n} = {Alias(prefix, k) : k \in 0..(n - 1)}
     /\ \A i \in 1..n, j \in 1..n :
          (map[i].identifier = map[j].identifier \/ map[i].specifier = map[j].specifier)
            => i = j

BindingsKept ==
  \A i \in 1..Len(specifierToIdentifier) :
    \E j \in 1..Len(specifierToIdentifier') :
      specifierToIdentifier'[j] = specifierToIdentifier[i]

\* C12: in every state reachable by generateNamedImport and getAllImports
\* calls, the counter equals the number of modules in the alias map, the
\* allocated aliases are exactly prefix+0 .. prefix+(n-1), each alias is bound
\* to exactly one module, and no step removes or rebinds an entry of the map.
C12_AliasMapInvariant == []AliasMapWellFormed /\ [][BindingsKept]_vars

C12_Witness ==
  /\ Len(specifierToIdentifier) = NumModules
  /\ nextIndex = NumModules
  /\ specifierToIdentifier[NumModules].identifier = Alias(prefix, NumModules - 1)
  /\ rereferenced # {}
  /\ ret.op = "generateNamedImport"
  /\ ret.moduleImport = NULL

IsPrefix(s, t) == Len(s) <= Len(t) /\ \A i \in 1..Len(s) : s[i] = t[i]

IdentitySpecifiers(rw) ==
  \A m \in ModuleNames, p \in ContextPaths : rewriteSpecifier(rw, m, p) = m

\* C13: a getAllImports call leaves the alias map and the counter unchanged,
\* and with an identity specifier rewriter the lists the earlier getAllImports
\* calls returned are prefixes of the list this call returns, whatever
\* generateNamedImport calls happened in between.  (Each call is compared with
\* the two calls before it; being a prefix is transitive.)
C13_ListingGrowsByPrefix ==
  [][ret'.op = "getAllImports" =>
       /\ specifierToIdentifier' = specifierToIdentifier
       /\ nextIndex' = nextIndex
       /\ IdentitySpecifiers(rewriter) =>
            \A i \in 1..Len(listed) : IsPrefix(listed[i], ret'.imports)]_vars

C13_Witness ==
  /\ IdentitySpecifiers(rewriter)
  /\ ret.op = "getAllImports"
  /\ Len(ret.imports) = NumModules
  /\ Len(listed) = 2
  /\ Len(listed[1]) = 1
  /\ listed[2] = ret.imports
  /\ rereferenced # {}

====
